---- MODULE Spec2Model ----
(***************************************************************************)
(* StreamCast: the stream session orchestration of server/routes.ts,       *)
(* server/services/ffmpeg.ts and server/storage.ts.                        *)
(*                                                                         *)
(* Node runs one macrotask at a time, so every action below is one         *)
(* macrotask of the server: the arrival of a request, the return of the    *)
(* remote platform's call, the firing of a timer, the close event of the   *)
(* encoder subprocess.  Awaits of MemStorage methods resolve in the same   *)
(* macrotask (they are promises of synchronous code) and are part of the   *)
(* action that reaches them.                                               *)
(***************************************************************************)
EXTENDS Integers, Sequences, FiniteSets, TLC

\* ------------------------------------------------------------------ bounds
MaxStarts == 2
MaxStops == 2

StartReqs == 1..MaxStarts
StopReqs == 1..MaxStops

\* ------------------------------------------------------------- input sets
\* Video ids a start request may name: the uploaded video and one unknown id.
CatalogVideos == {"V1"}
VideoIds == CatalogVideos \cup {"V9"}
\* Page ids a start request may name: P1 has stored credentials, P2 has none.
PageIds == {"P1", "P2"}

NoProc == 0
NoInfo == [inputFile |-> "", rtmpUrl |-> 0]

VARIABLES
    videos,            \* MemStorage.videos: ids of the catalog
    files,             \* uploads directory: files on disk, by video
    credentials,       \* MemStorage.credentials: page ids with a token
    sessions,          \* MemStorage.sessions, in insertion order
    streamingProcess,  \* FFmpegService.streamingProcess (NoProc = null)
    isStreaming,       \* FFmpegService.isStreaming
    currentStreamInfo, \* FFmpegService.currentStreamInfo (NoInfo = null)
    proc,              \* the encoder subprocesses, one per start request
    start,             \* POST /api/stream/start handlers
    stop,              \* POST /api/stream/stop handlers
    fbLive,            \* remote platform: live targets created and not ended
    events,            \* messages broadcast to the connected clients
    queue,             \* MemStorage.queue, in insertion order
    qnext,             \* number of queue entries created so far (id source)
    qresp,             \* status code of the last answer of a queue route
                       \* or of the status route
    metrics            \* MemStorage.metrics: session ids of the samples

storageVars == <<videos, files, credentials, sessions>>
ffmpegVars == <<streamingProcess, isStreaming, currentStreamInfo, proc>>
queueVars == <<queue, qnext, qresp>>
vars == <<videos, files, credentials, sessions, streamingProcess, isStreaming,
          currentStreamInfo, proc, start, stop, fbLive, events, queue, qnext,
          qresp, metrics>>

\* ---------------------------------------------------------------- storage
\* MemStorage.getCurrentSession: index of the first session, in insertion
\* order, whose status is "streaming"; 0 when there is none.
StreamingIdx == {i \in 1..Len(sessions) : sessions[i].status = "streaming"}

getCurrentSession ==
    IF StreamingIdx = {} THEN 0
    ELSE CHOOSE i \in StreamingIdx : \A j \in StreamingIdx : i <= j

\* createSession that reuses the last session record instead of adding one.
createSession_Reuse(ss, id, videoId) ==
    IF ss = <<>>
    THEN <<[id |-> id, status |-> "streaming",
            currentVideoId |-> videoId, endTime |-> "null"]>>
    ELSE [ss EXCEPT ![Len(ss)].status = "streaming",
                    ![Len(ss)].currentVideoId = videoId]

\* MemStorage.createSession with the record the start route passes.
createSession(ss, id, videoId) ==
    Append(ss, [id |-> id, status |-> "streaming",
                currentVideoId |-> videoId, endTime |-> "null"])

\* updateSession that drops the endTime of the updates.
updateSession_NoEndTime(ss, id) ==
    [i \in 1..Len(ss) |->
        IF ss[i].id = id THEN [ss[i] EXCEPT !.status = "stopped"] ELSE ss[i]]

\* MemStorage.updateSession with the updates the stop route passes.
updateSession(ss, id) ==
    [i \in 1..Len(ss) |->
        IF ss[i].id = id
        THEN [ss[i] EXCEPT !.status = "stopped", !.endTime = "set"]
        ELSE ss[i]]

\* ----------------------------------------------------------------- ffmpeg
\* startStream without its guard.
AlreadyRunning_NoGuard == FALSE

\* FFmpegService.startStream's guard.
AlreadyRunning == isStreaming

\* A test that takes the launch for confirmed whatever the handle is.
HandleNotKilled_Always == TRUE

\* The liveness test shared by the confirmation and the escalation timers:
\* this.streamingProcess && !this.streamingProcess.killed
HandleNotKilled ==
    streamingProcess # NoProc /\ ~proc[streamingProcess].killed

\* FFmpegService.isProcessAlive
isProcessAlive == HandleNotKilled

\* FFmpegService.getStreamingStatus
getStreamingStatus == isStreaming

\* ChildProcess.kill(sig) on process p: the signal is delivered to a running
\* process and the killed property becomes true; a process that has exited
\* receives nothing.
Kill(pr, p, sig) ==
    IF pr[p].state = "running"
    THEN [pr EXCEPT ![p].killed = TRUE, ![p].signals = @ \cup {sig}]
    ELSE pr

InitProc ==
    [state |-> "none", killed |-> FALSE, signals |-> {},
     inputFile |-> "", rtmpUrl |-> 0, closeListeners |-> <<>>]

InitStart ==
    [pc |-> "idle", videoId |-> "", pageId |-> "", liveVideo |-> 0,
     resp |-> 0, err |-> "", timer |-> FALSE]

InitStop == [pc |-> "idle", session |-> 0, resp |-> 0, timer |-> FALSE]

Init ==
    /\ videos = CatalogVideos
    /\ files = CatalogVideos
    /\ credentials = {"P1"}
    /\ sessions = <<>>
    /\ streamingProcess = NoProc
    /\ isStreaming = FALSE
    /\ currentStreamInfo = NoInfo
    /\ proc = [p \in StartReqs |-> InitProc]
    /\ start = [r \in StartReqs |-> InitStart]
    /\ stop = [s \in StopReqs |-> InitStop]
    /\ fbLive = {}
    /\ events = <<>>
    /\ queue = <<>>
    /\ qnext = 0
    /\ qresp = 0
    /\ metrics = <<>>

\* ------------------------------------------------------------ start route
\* The catch block of the start route: the error is logged, the caller gets
\* the generic 500.
StartFailed(r, msg) ==
    start' = [start EXCEPT ![r].pc = "done", ![r].resp = 500, ![r].err = msg]

\* The error text of the start route's answer, by status code.
ResponseBody(code) ==
    CASE code = 404 -> "Video not found"
      [] code = 400 -> "Facebook credentials not found"
      [] code = 500 -> "Failed to start stream"
      [] OTHER -> ""

\* POST /api/stream/start up to the call of the remote platform.
StartBegin(r) ==
    /\ UNCHANGED <<queueVars, metrics>>
    /\ start[r].pc = "idle"
    /\ r > 1 => start[r - 1].pc # "idle"
    /\ \E v \in VideoIds, pg \in PageIds :
        IF v \notin videos
        THEN start' = [start EXCEPT ![r].pc = "done", ![r].resp = 404,
                                    ![r].err = "Video not found"]
        ELSE IF pg \notin credentials
        THEN start' = [start EXCEPT ![r].pc = "done", ![r].resp = 400,
                                    ![r].err = "Facebook credentials not found"]
        ELSE start' = [start EXCEPT ![r].pc = "fb_create",
                                    ![r].videoId = v, ![r].pageId = pg]
    /\ UNCHANGED <<storageVars, ffmpegVars, stop, fbLive, events>>

\* facebookService.createLiveVideo returns (or throws), then the route calls
\* ffmpegService.startStream, which throws or spawns the encoder.  The ingest
\* URL of the live target of request r is written r.  The quality and bitrate
\* read from the configuration only shape the encoder's arguments and are
\* left out.  A failed spawn emits "error" on the next tick, before any other
\* macrotask, so it is part of this action.
FbCreateReturn(r) ==
    /\ UNCHANGED <<queueVars, metrics>>
    /\ start[r].pc = "fb_create"
    /\ \E ok \in BOOLEAN, spawned \in BOOLEAN :
        IF ~ok
        THEN /\ StartFailed(r, "Facebook API error")
             /\ UNCHANGED <<ffmpegVars, fbLive>>
        ELSE
          /\ fbLive' = fbLive \cup {r}
          /\ IF AlreadyRunning
             THEN /\ start' = [start EXCEPT ![r].pc = "done", ![r].resp = 500,
                                 ![r].err = "Stream is already running",
                                 ![r].liveVideo = r]
                  /\ UNCHANGED ffmpegVars
             ELSE IF start[r].videoId \notin files
             THEN /\ start' = [start EXCEPT ![r].pc = "done", ![r].resp = 500,
                                 ![r].err = "Video file not found",
                                 ![r].liveVideo = r]
                  /\ UNCHANGED ffmpegVars
             ELSE IF spawned
             THEN \* spawn succeeded: the handle is overwritten
                  /\ proc' = [proc EXCEPT ![r].state = "running",
                                          ![r].inputFile = start[r].videoId,
                                          ![r].rtmpUrl = r]
                  /\ streamingProcess' = r
                  /\ start' = [start EXCEPT ![r].pc = "confirm",
                                            ![r].liveVideo = r,
                                            ![r].timer = TRUE]
                  /\ UNCHANGED <<isStreaming, currentStreamInfo>>
             ELSE \* spawn failed: the "error" listener runs and rejects;
                  \* the confirmation timer stays armed
                  /\ proc' = [proc EXCEPT ![r].state = "failed",
                                          ![r].inputFile = start[r].videoId,
                                          ![r].rtmpUrl = r]
                  /\ streamingProcess' = NoProc
                  /\ isStreaming' = FALSE
                  /\ start' = [start EXCEPT ![r].pc = "done", ![r].resp = 500,
                                            ![r].err = "spawn error",
                                            ![r].liveVideo = r,
                                            ![r].timer = TRUE]
                  /\ UNCHANGED currentStreamInfo
    /\ UNCHANGED <<storageVars, stop, events>>

\* A confirmation that also takes the first stored entry off the queue.
ConfirmTimer_Dequeue(r) ==
    /\ queue' = SubSeq(queue, 2, Len(queue))
    /\ UNCHANGED <<qnext, qresp, metrics>>
    /\ start[r].timer
    /\ IF HandleNotKilled
       THEN /\ isStreaming' = TRUE
            /\ currentStreamInfo' = [inputFile |-> start[r].videoId,
                                     rtmpUrl |-> start[r].liveVideo]
            /\ IF start[r].pc = "confirm"
               THEN /\ sessions' = createSession(sessions, r, start[r].videoId)
                    /\ events' = Append(events,
                                   [type |-> "stream_started", id |-> r])
                    /\ start' = [start EXCEPT ![r].pc = "done",
                                   ![r].resp = 200, ![r].timer = FALSE]
               ELSE /\ start' = [start EXCEPT ![r].timer = FALSE]
                    /\ UNCHANGED <<sessions, events>>
       ELSE /\ IF start[r].pc = "confirm"
               THEN start' = [start EXCEPT ![r].pc = "done", ![r].resp = 500,
                                ![r].err = "Failed to start FFmpeg process",
                                ![r].timer = FALSE]
               ELSE start' = [start EXCEPT ![r].timer = FALSE]
            /\ UNCHANGED <<isStreaming, currentStreamInfo, sessions, events>>
    /\ UNCHANGED <<videos, files, credentials, streamingProcess, proc, stop,
                   fbLive>>

\* The 2 second timer of startStream fires; on resolve the route creates the
\* session, broadcasts stream_started and answers.
ConfirmTimer(r) ==
    /\ UNCHANGED <<queueVars, metrics>>
    /\ start[r].timer
    /\ IF HandleNotKilled
       THEN /\ isStreaming' = TRUE
            /\ currentStreamInfo' = [inputFile |-> start[r].videoId,
                                     rtmpUrl |-> start[r].liveVideo]
            /\ IF start[r].pc = "confirm"
               THEN /\ sessions' = createSession(sessions, r, start[r].videoId)
                    /\ events' = Append(events,
                                   [type |-> "stream_started", id |-> r])
                    /\ start' = [start EXCEPT ![r].pc = "done",
                                   ![r].resp = 200, ![r].timer = FALSE]
               ELSE /\ start' = [start EXCEPT ![r].timer = FALSE]
                    /\ UNCHANGED <<sessions, events>>
       ELSE /\ IF start[r].pc = "confirm"
               THEN start' = [start EXCEPT ![r].pc = "done", ![r].resp = 500,
                                ![r].err = "Failed to start FFmpeg process",
                                ![r].timer = FALSE]
               ELSE start' = [start EXCEPT ![r].timer = FALSE]
            /\ UNCHANGED <<isStreaming, currentStreamInfo, sessions, events>>
    /\ UNCHANGED <<videos, files, credentials, streamingProcess, proc, stop,
                   fbLive>>

\* ------------------------------------------------------------- stop route
\* The continuation of the stop route after stopStream resolves, for the stop
\* requests ids (in the order their promises resolve): updateSession of the
\* session read at the start of the request, then the broadcast.
RECURSIVE SessionsAfterStops(_, _)
SessionsAfterStops(ss, ids) ==
    IF ids = <<>> THEN ss
    ELSE SessionsAfterStops(updateSession(ss, stop[Head(ids)].session),
                            Tail(ids))

\* stream_stopped messages that do not carry the session id.
StoppedEvents_NoId(ids) ==
    [k \in 1..Len(ids) |-> [type |-> "stream_stopped", id |-> 0]]

StoppedEvents(ids) ==
    [k \in 1..Len(ids) |->
        [type |-> "stream_stopped", id |-> stop[ids[k]].session]]

SeqToSet(q) == {q[k] : k \in 1..Len(q)}

\* POST /api/stream/stop up to the await of stopStream's promise; when
\* stopStream returns false at once the route runs to its end.
StopBegin(s) ==
    /\ UNCHANGED <<queueVars, metrics>>
    /\ stop[s].pc = "idle"
    /\ s > 1 => stop[s - 1].pc # "idle"
    /\ LET cur == getCurrentSession IN
       IF cur = 0
       THEN /\ stop' = [stop EXCEPT ![s].pc = "done", ![s].resp = 400]
            /\ UNCHANGED <<sessions, events, proc>>
       ELSE IF ~isStreaming \/ streamingProcess = NoProc
       THEN \* stopStream returns false; the route does not read the result
            /\ sessions' = updateSession(sessions, sessions[cur].id)
            /\ events' = Append(events, [type |-> "stream_stopped",
                                         id |-> sessions[cur].id])
            /\ stop' = [stop EXCEPT ![s].pc = "done", ![s].resp = 200,
                                    ![s].session = sessions[cur].id]
            /\ UNCHANGED proc
       ELSE \* a close listener is added, SIGTERM is sent, the timer is armed
            /\ proc' = Kill([proc EXCEPT ![streamingProcess].closeListeners =
                                            Append(@, s)],
                            streamingProcess, "SIGTERM")
            /\ stop' = [stop EXCEPT ![s].pc = "stopping",
                                    ![s].session = sessions[cur].id,
                                    ![s].timer = TRUE]
            /\ UNCHANGED <<sessions, events>>
    /\ UNCHANGED <<videos, files, credentials, streamingProcess, isStreaming,
                   currentStreamInfo, start, fbLive>>

\* The 5 second timer of stopStream fires.
EscalationTimer(s) ==
    /\ UNCHANGED <<queueVars, metrics>>
    /\ stop[s].timer
    /\ stop' = [stop EXCEPT ![s].timer = FALSE]
    /\ proc' = IF HandleNotKilled
               THEN Kill(proc, streamingProcess, "SIGKILL")
               ELSE proc
    /\ UNCHANGED <<storageVars, streamingProcess, isStreaming,
                   currentStreamInfo, start, fbLive, events>>

\* ------------------------------------------------------------- subprocess
\* The encoder p exits (end of input, crash, or a signal it obeys) and its
\* "close" event runs the listeners in the order they were added: the one of
\* startStream, then the one of every stopStream waiting on p.
\* A close whose stopStream listeners resolve without clearing the fields.
ProcClose_KeepsFields(p) ==
    /\ UNCHANGED <<queueVars, metrics>>
    /\ proc[p].state = "running"
    /\ LET ids == proc[p].closeListeners IN
       /\ proc' = [proc EXCEPT ![p].state = "exited",
                               ![p].closeListeners = <<>>]
       /\ isStreaming' = FALSE
       /\ streamingProcess' = NoProc
       /\ currentStreamInfo' = currentStreamInfo
       /\ sessions' = SessionsAfterStops(sessions, ids)
       /\ events' = events \o StoppedEvents(ids)
       /\ stop' = [s \in StopReqs |->
                     IF s \in SeqToSet(ids)
                     THEN [stop[s] EXCEPT !.pc = "done", !.resp = 200]
                     ELSE stop[s]]
    /\ UNCHANGED <<videos, files, credentials, start, fbLive>>

ProcClose(p) ==
    /\ UNCHANGED <<queueVars, metrics>>
    /\ proc[p].state = "running"
    /\ LET ids == proc[p].closeListeners IN
       /\ proc' = [proc EXCEPT ![p].state = "exited",
                               ![p].closeListeners = <<>>]
       /\ isStreaming' = FALSE
       /\ streamingProcess' = NoProc
       /\ currentStreamInfo' = IF ids = <<>> THEN currentStreamInfo ELSE NoInfo
       /\ sessions' = SessionsAfterStops(sessions, ids)
       /\ events' = events \o StoppedEvents(ids)
       /\ stop' = [s \in StopReqs |->
                     IF s \in SeqToSet(ids)
                     THEN [stop[s] EXCEPT !.pc = "done", !.resp = 200]
                     ELSE stop[s]]
    /\ UNCHANGED <<videos, files, credentials, start, fbLive>>

\* --------------------------------------------------------- video catalog
\* DELETE /api/videos/:id of a video of the catalog: the file is unlinked,
\* the record deleted, video_deleted broadcast (its payload, the video id, is
\* written 0 in the log, whose other entries carry a session id).
DeleteVideo(v) ==
    /\ v \in videos
    /\ files' = files \ {v}
    /\ videos' = videos \ {v}
    /\ events' = Append(events, [type |-> "video_deleted", id |-> 0])
    /\ UNCHANGED <<credentials, sessions, ffmpegVars, start, stop, fbLive,
                   queueVars, metrics>>

\* ------------------------------------------------------------------- spec
Next ==
    \/ \E r \in StartReqs : StartBegin(r)
    \/ \E r \in StartReqs : FbCreateReturn(r)
    \/ \E r \in StartReqs : ConfirmTimer(r)
    \/ \E s \in StopReqs : StopBegin(s)
    \/ \E s \in StopReqs : EscalationTimer(s)
    \/ \E p \in StartReqs : ProcClose(p)
    \/ \E v \in CatalogVideos : DeleteVideo(v)

Spec == Init /\ [][Next]_vars

\* Timers fire, the remote platform answers, and a process that was sent
\* SIGKILL exits; a process that was only sent SIGTERM may ignore it.
ForcedClose(p) == ProcClose(p) /\ "SIGKILL" \in proc[p].signals

Fairness ==
    /\ \A r \in StartReqs : WF_vars(FbCreateReturn(r))
    /\ \A r \in StartReqs : WF_vars(ConfirmTimer(r))
    /\ \A s \in StopReqs : WF_vars(EscalationTimer(s))
    /\ \A p \in StartReqs : WF_vars(ForcedClose(p))

FairSpec == Init /\ [][Next]_vars /\ Fairness

\* ---------------------------------------------------------------- sampler
\* The number of metrics samples after which the sampler is left out.
MaxSamples == 1

\* A sampler that stores a sample for the latest session on every tick.
MetricsTick_Unguarded ==
    /\ Len(metrics) < MaxSamples
    /\ sessions # <<>>
    /\ metrics' = Append(metrics,
                         [sessionId |-> sessions[Len(sessions)].id])
    /\ events' = Append(events,
                        [type |-> "metrics_updated",
                         id |-> sessions[Len(sessions)].id])
    /\ UNCHANGED <<videos, files, credentials, sessions, ffmpegVars, start,
                   stop, fbLive, queueVars>>

\* One firing of the 5 s interval of registerRoutes: while a session is
\* "streaming" and the service reports streaming, a sample for that session
\* is stored and metrics_updated is broadcast; otherwise nothing happens.
MetricsTick ==
    /\ Len(metrics) < MaxSamples
    /\ getCurrentSession # 0
    /\ getStreamingStatus
    /\ metrics' = Append(metrics,
                         [sessionId |-> sessions[getCurrentSession].id])
    /\ events' = Append(events,
                        [type |-> "metrics_updated",
                         id |-> sessions[getCurrentSession].id])
    /\ UNCHANGED <<videos, files, credentials, sessions, ffmpegVars, start,
                   stop, fbLive, queueVars>>

\* The stream operations and the sampler (the catalog is left as it is).
SamplerNext ==
    \/ \E r \in StartReqs : StartBegin(r)
    \/ \E r \in StartReqs : FbCreateReturn(r)
    \/ \E r \in StartReqs : ConfirmTimer(r)
    \/ \E s \in StopReqs : StopBegin(s)
    \/ \E s \in StopReqs : EscalationTimer(s)
    \/ \E p \in StartReqs : ProcClose(p)
    \/ MetricsTick

SamplerSpec == Init /\ [][SamplerNext]_vars

TypeOK ==
    /\ videos \subseteq CatalogVideos
    /\ files \subseteq CatalogVideos
    /\ streamingProcess \in StartReqs \cup {NoProc}
    /\ isStreaming \in BOOLEAN
    /\ \A p \in StartReqs :
         proc[p].state \in {"none", "running", "exited", "failed"}
    /\ \A r \in StartReqs :
         /\ start[r].pc \in {"idle", "fb_create", "confirm", "done"}
         /\ start[r].resp \in {0, 200, 400, 404, 500}
    /\ \A s \in StopReqs :
         /\ stop[s].pc \in {"idle", "stopping", "done"}
         /\ stop[s].resp \in {0, 200, 400}
    /\ fbLive \subseteq StartReqs

\* ================================================================ claims
SessionIds == {sessions[i].id : i \in 1..Len(sessions)}

SessionOf(id) == CHOOSE i \in 1..Len(sessions) : sessions[i].id = id

StatusOf(id) ==
    IF id \in SessionIds THEN sessions[SessionOf(id)].status ELSE "absent"

\* A stream is live: a session is streaming and the supervisor holds a
\* running encoder it has confirmed.
Live ==
    /\ getCurrentSession # 0
    /\ isStreaming
    /\ streamingProcess # NoProc
    /\ proc[streamingProcess].state = "running"

StartInFlight(r) == start[r].pc \in {"fb_create", "confirm"}
StopInFlight(s) == stop[s].pc = "stopping"

\* C1: in every reachable state at most one session record has status
\* "streaming".
C1_AtMostOneStreaming == Cardinality(StreamingIdx) <= 1

\* C2: of the start requests issued concurrently while no stream is live,
\* the later ones fail fast and spawn nothing while the first is inside its
\* confirmation window: no two start requests are ever inside a confirmation
\* window (each with an encoder it spawned) at the same time.
C2_OneLaunchInWindow ==
    \A r1, r2 \in StartReqs :
        (start[r1].pc = "confirm" /\ start[r2].pc = "confirm") => r1 = r2

\* C3: a start request whose launch is attempted while a stream is live
\* fails, leaves the session records (so the live session's status) unchanged
\* and spawns no second subprocess.
C3_StartWhileLiveFails ==
    [][\A r \in StartReqs :
          (Live /\ start[r].pc \in {"idle", "fb_create"}
                /\ start'[r].pc # start[r].pc)
          => /\ start'[r].pc \in {"fb_create", "done"}
             /\ start'[r].pc = "done" => start'[r].resp \in {400, 404, 500}
             /\ (start[r].pc = "fb_create" /\ r \in fbLive')
                   => start'[r].err = "Stream is already running"
             /\ sessions' = sessions
             /\ proc' = proc
             /\ streamingProcess' = streamingProcess]_vars

\* C3 witness: a start request was refused with "Stream is already running"
\* without spawning, and the stream it met is still live.
C3_Witness ==
    \E r \in StartReqs :
        /\ start[r].pc = "done"
        /\ start[r].resp = 500
        /\ start[r].err = "Stream is already running"
        /\ proc[r].state = "none"
        /\ Live

\* The encoder that request r spawned has exited without having been sent a
\* signal, and the session that request created is still recorded.
ExitedOnItsOwn(r) ==
    /\ r \in SessionIds
    /\ proc[r].state = "exited"
    /\ proc[r].signals = {}

\* The step is the unexpected exit of encoder p during a streaming session:
\* p is the supervisor's confirmed process, no signal was sent to it, and a
\* session is streaming.
UnexpectedExitStep(p) ==
    /\ proc[p].state = "running"
    /\ proc'[p].state = "exited"
    /\ proc[p].signals = {}
    /\ streamingProcess = p
    /\ isStreaming
    /\ getCurrentSession # 0

\* C4: when the subprocess of a streaming session exits on its own, the
\* session's status eventually becomes "error".
C4_ExitLeadsToError ==
    \A r \in StartReqs :
        (ExitedOnItsOwn(r) /\ StatusOf(r) = "streaming")
            ~> (StatusOf(r) = "error")

\* C5: every unexpected subprocess exit during a streaming session sends a
\* state-change event to the notifier.
C5_ExitIsBroadcast ==
    [][\A p \in StartReqs :
          UnexpectedExitStep(p) => Len(events') > Len(events)]_vars

\* C6: every start request and every stop request in flight eventually
\* completes with a response, also when the subprocess ignores SIGTERM
\* (timers fire, the remote platform answers, a force-killed process exits).
C6_RequestsComplete ==
    /\ \A r \in StartReqs : StartInFlight(r) ~> (start[r].pc = "done")
    /\ \A s \in StopReqs : StopInFlight(s) ~> (stop[s].pc = "done")

\* C7: when the escalation timer of a stop fires and the subprocess that
\* stop sent SIGTERM to has not exited, SIGKILL is sent to it.
C7_EscalationKills ==
    [][\A s \in StopReqs : \A p \in StartReqs :
          (/\ stop[s].timer
           /\ ~stop'[s].timer
           /\ s \in SeqToSet(proc[p].closeListeners)
           /\ proc[p].state = "running")
          => "SIGKILL" \in proc'[p].signals]_vars

\* C8: a start request that failed after its remote live target was created
\* has had that target ended, and has left no running subprocess and no
\* streaming session behind.
C8_FailedStartTornDown ==
    \A r \in StartReqs :
        (start[r].pc = "done" /\ start[r].resp = 500 /\ start[r].liveVideo # 0)
        => /\ start[r].liveVideo \notin fbLive
           /\ proc[r].state # "running"
           /\ StatusOf(r) # "streaming"

\* C9: every successful stop request has told the remote platform to end the
\* live target of the session it stopped.
C9_StopEndsLiveTarget ==
    \A s \in StopReqs :
        (stop[s].pc = "done" /\ stop[s].resp = 200)
            => stop[s].session \notin fbLive

\* The session lifecycle events broadcast so far.
LifecycleEvents ==
    SelectSeq(events,
              LAMBDA e : e.type \in {"stream_started", "stream_stopped"})

\* The last facade operation that completed with success was a stop, and no
\* start or stop is in flight.
JustStopped ==
    /\ LifecycleEvents # <<>>
    /\ LifecycleEvents[Len(LifecycleEvents)].type = "stream_stopped"
    /\ \A r \in StartReqs : ~StartInFlight(r)
    /\ \A s \in StopReqs : ~StopInFlight(s)

\* C10: a stop request that follows a completed stop, with no start in
\* between, fails with 400 "No active stream found", changes no session and
\* broadcasts no second stream_stopped.
C10_SecondStopFails ==
    [][\A s \in StopReqs :
          (JustStopped /\ stop[s].pc = "idle" /\ stop'[s].pc # "idle")
          => /\ stop'[s].pc = "done"
             /\ stop'[s].resp = 400
             /\ sessions' = sessions
             /\ events' = events]_vars

\* ------------------------------------------------------- C11 .. C14, C20
\* The status and the end time of the session id in the session list ss.
StatusIn(ss, id) ==
    IF \E i \in 1..Len(ss) : ss[i].id = id
    THEN ss[CHOOSE i \in 1..Len(ss) : ss[i].id = id].status
    ELSE "absent"

EndTimeIn(ss, id) ==
    IF \E i \in 1..Len(ss) : ss[i].id = id
    THEN ss[CHOOSE i \in 1..Len(ss) : ss[i].id = id].endTime
    ELSE "absent"

\* C11: a stop request made when no stream is live (idle, start in flight,
\* encoder dead, already stopped) fails with 400 "No active stream found" and
\* changes no session record.
C11_StopOnlyWhenLive ==
    [][\A s \in StopReqs :
          (~Live /\ stop[s].pc = "idle" /\ stop'[s].pc # "idle")
          => /\ stop'[s].pc = "done"
             /\ stop'[s].resp = 400
             /\ sessions' = sessions]_vars

\* C12: while a stop waits on encoder p and its escalation timer has not
\* fired, no SIGKILL is delivered to p; when p exits in that window the stop
\* is answered 200 and the session it read is "stopped" with its endTime set.
C12_GracefulStop ==
    [][\A s \in StopReqs : \A p \in StartReqs :
          (s \in SeqToSet(proc[p].closeListeners) /\ stop[s].timer)
          => /\ "SIGKILL" \in proc'[p].signals => "SIGKILL" \in proc[p].signals
             /\ proc'[p].state = "exited"
                  => /\ stop'[s].pc = "done"
                     /\ stop'[s].resp = 200
                     /\ StatusIn(sessions', stop[s].session) = "stopped"
                     /\ EndTimeIn(sessions', stop[s].session) = "set"]_vars

\* C12 witness: a stop was answered 200 before its escalation timer fired,
\* its session is stopped with an end time, and an encoder has exited having
\* received SIGTERM only.
C12_Witness ==
    \E s \in StopReqs : \E p \in StartReqs :
        /\ stop[s].pc = "done"
        /\ stop[s].resp = 200
        /\ stop[s].timer
        /\ StatusOf(stop[s].session) = "stopped"
        /\ EndTimeIn(sessions, stop[s].session) = "set"
        /\ proc[p].state = "exited"
        /\ proc[p].signals = {"SIGTERM"}

\* C13: when the confirmation timer of a start request fires and the encoder
\* that request spawned is still running, the request succeeds and appends
\* exactly one session, streaming, with the request's video; that encoder was
\* launched with the video's file and the request's ingest URL.
C13_ConfirmedStartCreatesSession ==
    [][\A r \in StartReqs :
          (/\ start[r].pc = "confirm"
           /\ start[r].timer
           /\ ~start'[r].timer
           /\ proc[r].state = "running")
          => /\ start'[r].resp = 200
             /\ sessions' = Append(sessions,
                   [id |-> r, status |-> "streaming",
                    currentVideoId |-> start[r].videoId, endTime |-> "null"])
             /\ proc[r].inputFile = start[r].videoId
             /\ proc[r].rtmpUrl = start[r].liveVideo]_vars

\* C14: a session whose status is "stopped" or "error" keeps that status in
\* every step; sessions are never removed or renamed, and a session created
\* by a step has an identifier no earlier session has.
C14_TerminalStatusFinal ==
    [][/\ Len(sessions') >= Len(sessions)
       /\ \A i \in 1..Len(sessions) :
            /\ sessions'[i].id = sessions[i].id
            /\ sessions[i].status \in {"stopped", "error"}
                 => sessions'[i].status = sessions[i].status
       /\ \A j \in (Len(sessions) + 1)..Len(sessions') :
            /\ sessions'[j].id \notin SessionIds
            /\ \A k \in (Len(sessions) + 1)..Len(sessions') :
                 sessions'[k].id = sessions'[j].id => k = j]_vars

\* C14 witness: the sampler has stored a sample, a session was stopped, a
\* later start created a session, and the first one is still "stopped".
C14_Witness ==
    /\ metrics # <<>>
    /\ \E k, l \in 1..Len(events) :
        /\ k < l
        /\ events[k].type = "stream_stopped"
        /\ events[l].type = "stream_started"
        /\ events[l].id # events[k].id
        /\ StatusOf(events[k].id) = "stopped"
        /\ StatusOf(events[l].id) = "streaming"

\* The cause of a failed start, from the error the handler met.
Cause(r) ==
    CASE start[r].err = "Facebook credentials not found" -> "credentials"
      [] start[r].err = "Facebook API error" -> "remote"
      [] start[r].err \in {"spawn error", "Failed to start FFmpeg process"}
            -> "launch"
      [] start[r].err = "Stream is already running" -> "already"
      [] OTHER -> "other"

\* C20: two failed start requests whose causes differ among missing
\* credentials, remote-platform failure, launch failure and "already
\* streaming" get different answers (status code or error text).
C20_DistinctFailureReasons ==
    \A r1, r2 \in StartReqs :
        (/\ start[r1].pc = "done" /\ start[r1].resp # 200
         /\ start[r2].pc = "done" /\ start[r2].resp # 200
         /\ Cause(r1) # "other" /\ Cause(r2) # "other"
         /\ Cause(r1) # Cause(r2))
        => <<start[r1].resp, ResponseBody(start[r1].resp)>>
             # <<start[r2].resp, ResponseBody(start[r2].resp)>>

\* ================================================================= queue
\* Bounds of the queue model: the largest position a request may name, and
\* the number of queue_updated broadcasts after which no further queue
\* request (enqueue, remove, clear) is made.
MaxPos == 2
MaxLog == 2

Positions == 0..MaxPos
\* The videos of the catalog in the queue model, and the ids an enqueue
\* request may name (V9 is in no catalog).
QueueCatalog == {"V1", "V2"}
QueueVideoIds == QueueCatalog \cup {"V9"}

RemoveAt(q, k) == SubSeq(q, 1, k - 1) \o SubSeq(q, k + 1, Len(q))

\* Array.prototype.sort((a, b) => a.position - b.position): a stable sort,
\* so entries of equal position keep the order of the Map (insertion order).
RECURSIVE SortByPosition(_)
SortByPosition(q) ==
    IF q = <<>> THEN <<>>
    ELSE LET k == CHOOSE k \in 1..Len(q) :
                    \A j \in 1..Len(q) :
                        \/ q[k].position < q[j].position
                        \/ (q[k].position = q[j].position /\ k <= j)
         IN <<q[k]>> \o SortByPosition(RemoveAt(q, k))

\* getQueue that returns every stored entry.
getQueue_NoFilter(q, vids) == SortByPosition(q)

\* getQueue that does not sort.
getQueue_Unsorted(q, vids) == SelectSeq(q, LAMBDA e : e.videoId \in vids)

\* MemStorage.getQueue on the stored queue q with the catalog vids: sorted by
\* position, entries whose video is not in the catalog left out.
getQueue(q, vids) ==
    SelectSeq(SortByPosition(q), LAMBDA e : e.videoId \in vids)

\* MemStorage.addToQueue
addToQueue(q, id, v, pos) ==
    Append(q, [id |-> id, videoId |-> v, position |-> pos])

\* MemStorage.removeFromQueue
removeFromQueue(q, id) == SelectSeq(q, LAMBDA e : e.id # id)

\* MemStorage.clearQueue
clearQueue(q) == <<>>

\* reorderQueue that deletes the entry and inserts it again, at the end.
reorderQueue_Reinsert(q, id, newPosition) ==
    SelectSeq(q, LAMBDA e : e.id # id)
      \o [k \in 1..1 |->
            [(CHOOSE e \in {q[j] : j \in 1..Len(q)} : e.id = id)
                EXCEPT !.position = newPosition]]

\* MemStorage.reorderQueue: Map.set of an existing key keeps its place.
reorderQueue(q, id, newPosition) ==
    [k \in 1..Len(q) |->
        IF q[k].id = id THEN [q[k] EXCEPT !.position = newPosition]
        ELSE q[k]]

\* The queue_updated message carrying the queue read view; the log keeps the
\* ids of the entries of the payload, in the payload's order.
QueueUpdated(view) ==
    [type |-> "queue_updated", id |-> 0,
     data |-> [k \in 1..Len(view) |-> view[k].id]]

streamVars == <<credentials, sessions, ffmpegVars, start, stop, fbLive,
                metrics>>

\* The number of queue_updated messages broadcast so far.
QueueBroadcasts ==
    Cardinality({k \in 1..Len(events) : events[k].type = "queue_updated"})

\* An enqueue that is not served while a start or a stop is in flight.
EnqueueRoute_Serialized(v, pos) ==
    /\ \A r \in StartReqs : start[r].pc \notin {"fb_create", "confirm"}
    /\ \A s \in StopReqs : stop[s].pc # "stopping"
    /\ QueueBroadcasts < MaxLog
    /\ queue' = addToQueue(queue, qnext + 1, v, pos)
    /\ qnext' = qnext + 1
    /\ events' = Append(events, QueueUpdated(getQueue(queue', videos)))
    /\ qresp' = 200
    /\ UNCHANGED <<videos, files, streamVars>>

\* POST /api/queue with a body of valid shape.
EnqueueRoute(v, pos) ==
    /\ QueueBroadcasts < MaxLog
    /\ queue' = addToQueue(queue, qnext + 1, v, pos)
    /\ qnext' = qnext + 1
    /\ events' = Append(events, QueueUpdated(getQueue(queue', videos)))
    /\ qresp' = 200
    /\ UNCHANGED <<videos, files, streamVars>>

\* A removal that also ends the streaming session.
RemoveRoute_EndsSession(id) ==
    /\ QueueBroadcasts < MaxLog
    /\ id \in 1..qnext
    /\ queue' = removeFromQueue(queue, id)
    /\ events' = Append(events, QueueUpdated(getQueue(queue', videos)))
    /\ qresp' = 200
    /\ sessions' = [i \in 1..Len(sessions) |->
                       [sessions[i] EXCEPT !.status = "stopped"]]
    /\ UNCHANGED <<videos, files, qnext, credentials, ffmpegVars, start,
                   stop, fbLive, metrics>>

\* DELETE /api/queue/:id, for an id of an entry created so far.
RemoveRoute(id) ==
    /\ QueueBroadcasts < MaxLog
    /\ id \in 1..qnext
    /\ queue' = removeFromQueue(queue, id)
    /\ events' = Append(events, QueueUpdated(getQueue(queue', videos)))
    /\ qresp' = 200
    /\ UNCHANGED <<videos, files, qnext, streamVars>>

\* DELETE /api/queue
ClearRoute ==
    /\ QueueBroadcasts < MaxLog
    /\ queue' = clearQueue(queue)
    /\ events' = Append(events, QueueUpdated(<<>>))
    /\ qresp' = 200
    /\ UNCHANGED <<videos, files, qnext, streamVars>>

\* storage.reorderQueue(id, newPosition) of a stored entry; no route calls it
\* and nothing is broadcast. A reorder to the position the entry already has
\* changes nothing and is not a step.
Reorder(id, newPosition) ==
    /\ \E k \in 1..Len(queue) : queue[k].id = id
    /\ queue[CHOOSE k \in 1..Len(queue) : queue[k].id = id].position
          # newPosition
    /\ queue' = reorderQueue(queue, id, newPosition)
    /\ UNCHANGED <<videos, files, qnext, qresp, events, streamVars>>

QueueInit ==
    /\ videos = QueueCatalog
    /\ files = QueueCatalog
    /\ credentials = {"P1"}
    /\ sessions = <<>>
    /\ streamingProcess = NoProc
    /\ isStreaming = FALSE
    /\ currentStreamInfo = NoInfo
    /\ proc = [p \in StartReqs |-> InitProc]
    /\ start = [r \in StartReqs |-> InitStart]
    /\ stop = [s \in StopReqs |-> InitStop]
    /\ fbLive = {}
    /\ events = <<>>
    /\ queue = <<>>
    /\ qnext = 0
    /\ qresp = 0
    /\ metrics = <<>>

QueueNext ==
    \/ \E v \in QueueVideoIds, pos \in Positions : EnqueueRoute(v, pos)
    \/ \E id \in 1..MaxLog : RemoveRoute(id)
    \/ ClearRoute
    \/ \E id \in 1..MaxLog, pos \in Positions : Reorder(id, pos)
    \/ \E v \in QueueCatalog : DeleteVideo(v)

QueueSpec == QueueInit /\ [][QueueNext]_vars

\* ---------------------------------------------------------- queue claims
\* The ordered queue read (GET /api/queue) and the stored entries whose video
\* is in the catalog.
QueueView == getQueue(queue, videos)
Visible == {k \in 1..Len(queue) : queue[k].videoId \in videos}

\* C15 as stated: whenever the ordered read has a head, the head's position
\* is the minimum of the positions of all entries stored in the queue (here
\* only for queues whose entries were all enqueued for a video of the
\* catalog, so that the enqueue of an unknown video, C18, plays no part).
C15_HeadIsMinOfStored ==
    (/\ QueueView # <<>>
     /\ \A k \in 1..Len(queue) : queue[k].videoId \in QueueCatalog)
        => \A k \in 1..Len(queue) :
               QueueView[1].position <= queue[k].position

\* C15 amended: the ordered read has a head exactly when some stored entry's
\* video is in the catalog; the head is such an entry and its position is the
\* minimum of the positions of the stored entries whose video is in the
\* catalog; with exactly V1 at position 0 and V2 at position 1 stored, both
\* in the catalog, the head is the entry of V1.
C15_HeadIsMinOfVisible ==
    /\ (QueueView # <<>>) <=> (Visible # {})
    /\ QueueView # <<>> =>
          /\ \E k \in Visible : queue[k] = QueueView[1]
          /\ \A k \in Visible : QueueView[1].position <= queue[k].position
    /\ (/\ Len(queue) = 2
        /\ {"V1", "V2"} \subseteq videos
        /\ \E a, b \in 1..2 :
              /\ queue[a].videoId = "V1" /\ queue[a].position = 0
              /\ queue[b].videoId = "V2" /\ queue[b].position = 1)
          => QueueView[1].videoId = "V1"

\* C15 witness: a video was deleted, its entry is still stored with a
\* position below the head's, and the read has a head.
C15_Witness ==
    /\ \E e \in 1..Len(events) : events[e].type = "video_deleted"
    /\ QueueView # <<>>
    /\ \E k \in 1..Len(queue) :
          /\ queue[k].videoId \in QueueCatalog \ videos
          /\ queue[k].position < QueueView[1].position

\* C16: a step that reorders a stored entry X, whose video is in the
\* catalog, to position 0 leaves X at the head of the ordered queue read.
C16_ReorderToFrontIsHead ==
    [][\A x \in 1..Len(queue) :
          (/\ queue[x].videoId \in videos
           /\ Reorder(queue[x].id, 0))
             => /\ getQueue(queue', videos') # <<>>
                /\ getQueue(queue', videos')[1].id = queue[x].id]_vars

\* C17: an enqueue at the tail (position = the current length of the queue,
\* no stored entry being hidden from the read) of a video of the catalog
\* leaves the new entry last in the ordered queue read.
C17_TailEnqueueIsLast ==
    [][\A v \in videos :
          (/\ Visible = 1..Len(queue)
           /\ EnqueueRoute(v, Len(queue)))
             => LET view == getQueue(queue', videos')
                IN  /\ view # <<>>
                    /\ view[Len(view)].id = qnext']_vars

\* C18: an enqueue request naming a video that is not in the catalog is
\* answered 404 and leaves the stored queue as it was.
C18_EnqueueUnknownVideoFails ==
    [][\A v \in QueueVideoIds \ videos, pos \in Positions :
          EnqueueRoute(v, pos) => (queue' = queue /\ qresp' = 404)]_vars

\* C19 (queue part): every step that changes the stored queue appends one
\* queue_updated event carrying the resulting ordered queue.
C19_QueueMutationNotified ==
    [][queue' # queue =>
          events' = Append(events,
                           QueueUpdated(getQueue(queue', videos')))]_vars

\* ============================================================ supervisor
\* The encoder subprocesses that are running.
Running == {p \in StartReqs : proc[p].state = "running"}

\* C21: a launch attempted while a process handle exists (also inside the
\* confirmation window of an earlier launch) is rejected and spawns nothing,
\* and at most one encoder subprocess is running at any time.
C21_OneEncoderAlive ==
    [][/\ Cardinality(Running) <= 1
       /\ \A r \in StartReqs :
            (/\ start[r].pc = "fb_create"
             /\ start'[r].pc # "fb_create"
             /\ r \in fbLive'
             /\ streamingProcess # NoProc)
            => /\ start'[r].pc = "done"
               /\ start'[r].err = "Stream is already running"
               /\ proc' = proc]_vars

\* C22: when the confirmation timer of a launch fires, the launch has failed
\* and the handle is null if the process it spawned has exited or was never
\* spawned, and the launch succeeds with the handle referring to that process
\* if the process is still running.
C22_ConfirmationFollowsOwnProcess ==
    [][\A r \in StartReqs :
          (start[r].timer /\ ~start'[r].timer)
          => /\ proc[r].state \in {"exited", "failed"}
                  => /\ start'[r].pc = "done"
                     /\ start'[r].resp = 500
                     /\ streamingProcess' = NoProc
             /\ proc[r].state = "running"
                  => /\ start'[r].resp = 200
                     /\ streamingProcess' = r]_vars

\* C23: in every step in which a session changes from "streaming" to
\* "stopped" or "error", the process handle is null and no encoder subprocess
\* is running once the step is done.
C23_EndedSessionLeavesNoProcess ==
    [][(\E i \in 1..Len(sessions) :
            /\ sessions[i].status = "streaming"
            /\ sessions'[i].status \in {"stopped", "error"})
          => /\ streamingProcess' = NoProc
             /\ \A p \in StartReqs : proc'[p].state # "running"]_vars

\* C24: a stop waiting on stopStream's promise is resolved only in a step in
\* which an encoder carrying its close listener exits, and after that step
\* the handle is null, the streaming flag is false and the stored launch
\* options are cleared.
C24_StopResolvesOnClose ==
    [][\A s \in StopReqs :
          (stop[s].pc = "stopping" /\ stop'[s].pc # "stopping")
          => /\ \E p \in StartReqs :
                   /\ s \in SeqToSet(proc[p].closeListeners)
                   /\ proc[p].state = "running"
                   /\ proc'[p].state = "exited"
             /\ stop'[s].pc = "done"
             /\ streamingProcess' = NoProc
             /\ ~isStreaming'
             /\ currentStreamInfo' = NoInfo]_vars

\* C24 witness: a stop that sent SIGTERM has been resolved by the close of
\* the encoder, before its escalation timer fired, and the three fields are
\* cleared.
C24_Witness ==
    \E s \in StopReqs :
        /\ stop[s].pc = "done"
        /\ stop[s].timer
        /\ proc[stop[s].session].state = "exited"
        /\ "SIGTERM" \in proc[stop[s].session].signals
        /\ streamingProcess = NoProc
        /\ ~isStreaming
        /\ currentStreamInfo = NoInfo

\* The step is a stop request that reaches stopStream (a streaming session
\* was found).
CallsStopStream(s) ==
    /\ stop[s].pc = "idle"
    /\ stop'[s].pc # "idle"
    /\ getCurrentSession # 0

\* C25: a stopStream call made while no process handle exists sends no
\* signal and does not wait; one made while a handle exists (also inside a
\* launch's confirmation window) sends SIGTERM to the process in the handle.
C25_TerminateSignalsHandle ==
    [][\A s \in StopReqs :
          CallsStopStream(s)
          => /\ streamingProcess = NoProc
                  => (proc' = proc /\ stop'[s].pc = "done")
             /\ (streamingProcess # NoProc
                 /\ proc[streamingProcess].state = "running")
                  => "SIGTERM" \in proc'[streamingProcess].signals]_vars

\* A process handle exists and the process it refers to has not exited.
HandleRunning ==
    streamingProcess # NoProc /\ proc[streamingProcess].state = "running"

\* C26: in every reachable state each health query of the supervisor
\* (isProcessAlive, getStreamingStatus) is true exactly when a process handle
\* exists and its process has not been observed to exit.
C26_HealthIffHandleRunning ==
    /\ isProcessAlive <=> HandleRunning
    /\ getStreamingStatus <=> HandleRunning

\* The number of stream_stopped events for session x in the log ev.
StoppedCount(ev, x) ==
    Cardinality({k \in 1..Len(ev) :
                    ev[k].type = "stream_stopped" /\ ev[k].id = x})

\* Stop request s is the only stop request made for session x so far.
OnlyStopOf(s, x) ==
    \A s2 \in StopReqs \ {s} : stop[s2].pc = "idle" \/ stop[s2].session # x

\* The outcome C27 asks for, after the step: stop request s is answered,
\* session x is "stopped" or "error", and one stream_stopped names x.
EndedOnce(s, x) ==
    /\ stop'[s].pc = "done"
    /\ StatusIn(sessions', x) \in {"stopped", "error"}
    /\ StoppedCount(events', x) = 1

\* C27: for a session x (whose encoder is process x) and the one stop request
\* s made for it: if the encoder exits and then the stop arrives, or the stop
\* is waiting and then the encoder exits, the step that completes the pair
\* leaves s answered, x in one terminal status and exactly one stream_stopped
\* for x in the log.
C27_StopAndExitEndOnce ==
    [][\A s \in StopReqs : \A x \in StartReqs :
          /\ (/\ stop[s].pc = "idle" /\ stop'[s].pc # "idle"
              /\ getCurrentSession # 0
              /\ sessions[getCurrentSession].id = x
              /\ proc[x].state = "exited"
              /\ OnlyStopOf(s, x))
                => EndedOnce(s, x)
          /\ (/\ stop[s].pc = "stopping" /\ stop[s].session = x
              /\ proc[x].state = "running" /\ proc'[x].state = "exited"
              /\ OnlyStopOf(s, x))
                => EndedOnce(s, x)]_vars

\* ----------------------------------------------------------- queue order
\* C28: entries of equal position appear in the ordered queue read in the
\* order in which they were inserted (entry ids are given in insertion
\* order), also after entries were reordered.
C28_TiesInInsertionOrder ==
    \A i, j \in 1..Len(QueueView) :
        (i < j /\ QueueView[i].position = QueueView[j].position)
            => QueueView[i].id < QueueView[j].id

\* C28 witness: the last broadcast listed entry b before an earlier inserted
\* entry a; since then a reorder has given both the same position, and the
\* read lists a before b.
C28_Witness ==
    /\ events # <<>>
    /\ events[Len(events)].type = "queue_updated"
    /\ \E m, n \in 1..Len(events[Len(events)].data) :
       \E i, j \in 1..Len(QueueView) :
          /\ m < n
          /\ i < j
          /\ QueueView[i].id = events[Len(events)].data[n]
          /\ QueueView[j].id = events[Len(events)].data[m]
          /\ QueueView[i].id < QueueView[j].id
          /\ QueueView[i].position = QueueView[j].position

\* ====================================================== queue and stream
\* Bounds of the model of the queue routes next to the stream routes: the
\* start requests and the stop requests made.
PlayStarts == 1
PlayStops == 1

\* GET /api/queue: the ordered read is answered, nothing is written.
GetQueueRoute ==
    /\ qresp' = 200
    /\ UNCHANGED <<videos, files, queue, qnext, events, streamVars>>

\* GET /api/stream/status: the current session and the streaming flag are
\* read and answered, nothing is written.
StatusAnswer ==
    [isStreaming |-> getStreamingStatus,
     session |-> IF getCurrentSession = 0 THEN 0
                 ELSE sessions[getCurrentSession].id]

StatusRoute ==
    /\ qresp' = 200
    /\ UNCHANGED <<videos, files, queue, qnext, events, streamVars>>

\* The stream routes, the encoder, and the queue routes; entries are
\* enqueued for videos of the catalog at the tail (position = length).
PlayNext ==
    \/ \E r \in 1..PlayStarts : StartBegin(r)
    \/ \E r \in 1..PlayStarts : FbCreateReturn(r)
    \/ \E r \in 1..PlayStarts : ConfirmTimer(r)
    \/ \E s \in 1..PlayStops : StopBegin(s)
    \/ \E s \in 1..PlayStops : EscalationTimer(s)
    \/ \E p \in 1..PlayStarts : ProcClose(p)
    \/ \E v \in CatalogVideos : EnqueueRoute(v, Len(queue))
    \/ \E id \in 1..MaxLog : RemoveRoute(id)
    \/ ClearRoute
    \/ GetQueueRoute
    \/ StatusRoute

PlaySpec == Init /\ [][PlayNext]_vars

\* The ids of the entries stored in the queue q.
EntryIds(q) == {q[k].id : k \in 1..Len(q)}

\* C29: a step of a start request, of a stop request or of the encoder, and
\* a read of the queue, leave the stored queue as it was; a stored entry
\* disappears only in a step of the remove route for its id or of the clear
\* route.
C29_PlaybackKeepsQueue ==
    [][/\ (start' # start \/ stop' # stop \/ proc' # proc
              \/ sessions' # sessions \/ GetQueueRoute)
            => queue' = queue
       /\ \A id \in EntryIds(queue) \ EntryIds(queue') :
            RemoveRoute(id) \/ ClearRoute]_vars

\* C29 witness: the head was enqueued, then a stream for the head's video
\* was started and stopped, and the head is still stored.
C29_Witness ==
    /\ QueueView # <<>>
    /\ \E k, l, m \in 1..Len(events) :
          /\ k < l /\ l < m
          /\ events[k].type = "queue_updated"
          /\ \E n \in 1..Len(events[k].data) :
                events[k].data[n] = QueueView[1].id
          /\ events[l].type = "stream_started"
          /\ events[m].type = "stream_stopped"
          /\ events[m].id = events[l].id
          /\ events[l].id \in SessionIds
          /\ sessions[SessionOf(events[l].id)].currentVideoId
                = QueueView[1].videoId

\* C30: a step of the remove route or of the clear route taken while a
\* stream is live leaves the process handle, the streaming flag, the session
\* records and the encoders (so the signals they were sent) as they were.
C30_QueueRemovalKeepsStream ==
    [][(Live /\ ((\E id \in 1..MaxLog : RemoveRoute(id)) \/ ClearRoute))
          => /\ streamingProcess' = streamingProcess
             /\ isStreaming' = isStreaming
             /\ sessions' = sessions
             /\ proc' = proc]_vars

\* C30 witness: the stream is live and the last broadcast is the
\* queue_updated of a removal or clear that emptied the queue after the
\* stream had started.
C30_Witness ==
    /\ Live
    /\ qnext > 0
    /\ queue = <<>>
    /\ events # <<>>
    /\ events[Len(events)].type = "queue_updated"
    /\ events[Len(events)].data = <<>>
    /\ \E l \in 1..Len(events) :
          /\ events[l].type = "stream_started"
          /\ events[l].id = sessions[getCurrentSession].id

\* ------------------------------------------------------------ C31 .. C40
\* A start is inside its confirmation window or a stop is waiting for the
\* encoder to exit.
WaitInFlight ==
    \/ \E r \in 1..PlayStarts : start[r].pc = "confirm"
    \/ \E s \in 1..PlayStops : stop[s].pc = "stopping"

\* The step answers 200 and leaves the start and stop requests where they
\* were.
AnswersAtOnce == qresp' = 200 /\ start' = start /\ stop' = stop

\* C31: in every state in which a start is inside its confirmation window or
\* a stop waits for the exit, the status route and the queue routes (read,
\* enqueue, remove, clear) can take their step, and that step answers 200 and
\* leaves the waiting start and stop requests where they were.
C31_SideRoutesAvailable ==
    WaitInFlight
      => /\ ENABLED (StatusRoute /\ AnswersAtOnce)
         /\ ENABLED (GetQueueRoute /\ AnswersAtOnce)
         /\ QueueBroadcasts < MaxLog
              => /\ \A v \in videos :
                      ENABLED (EnqueueRoute(v, Len(queue)) /\ AnswersAtOnce)
                 /\ \A id \in 1..qnext :
                      ENABLED (RemoveRoute(id) /\ AnswersAtOnce)
                 /\ ENABLED (ClearRoute /\ AnswersAtOnce)

\* C31 witness: a stop is waiting for the exit of a live stream's encoder
\* and the last broadcast is the queue_updated of a queue route taken after
\* the stream had started.
C31_Witness ==
    /\ \E s \in 1..PlayStops : stop[s].pc = "stopping"
    /\ qresp = 200
    /\ \E k \in 1..Len(events) :
          /\ events[k].type = "stream_started"
          /\ k < Len(events)
          /\ events[Len(events)].type = "queue_updated"

\* C32: the stored samples and the metrics_updated broadcasts change only in
\* a step taken while a session is "streaming" and the supervisor reports
\* streaming; that step stores one sample with the id of the session that is
\* "streaming", broadcasts one metrics_updated and changes nothing else.
C32_SamplesOnlyWhileStreaming ==
    [][(\/ metrics' # metrics
        \/ /\ Len(events') > Len(events)
           /\ events'[Len(events')].type = "metrics_updated")
          => /\ getCurrentSession # 0
             /\ getStreamingStatus
             /\ metrics' = Append(metrics,
                    [sessionId |-> sessions[getCurrentSession].id])
             /\ sessions[getCurrentSession].status = "streaming"
             /\ events' = Append(events,
                    [type |-> "metrics_updated",
                     id |-> sessions[getCurrentSession].id])
             /\ UNCHANGED <<videos, files, credentials, sessions, ffmpegVars,
                            start, stop, fbLive, queueVars>>]_vars

\* C32 witness: a sample is stored for a session that has since been
\* stopped.
C32_Witness ==
    \E k \in 1..Len(metrics) :
        /\ metrics[k].sessionId \in SessionIds
        /\ StatusOf(metrics[k].sessionId) = "stopped"

\* C33: in every reachable state, if the streaming flag is true the process
\* handle is not null.
C33_FlagImpliesHandle == isStreaming => streamingProcess # NoProc

\* C33 witness: the flag is true with a handle, after an encoder of an
\* earlier launch has exited and cleared both fields.
C33_Witness ==
    /\ isStreaming
    /\ streamingProcess # NoProc
    /\ \E p \in StartReqs : proc[p].state = "exited"

\* C34: every encoder subprocess that is running is the one the process
\* handle refers to, and the exit of an encoder leaves the handle alone when
\* the handle refers to another encoder that is still running.
C34_NoOrphanEncoder ==
    [][/\ \A p \in Running : streamingProcess = p
       /\ \A p \in StartReqs :
            (/\ proc[p].state = "running" /\ proc'[p].state = "exited"
             /\ streamingProcess \in Running \ {p})
            => streamingProcess' = streamingProcess]_vars

\* C35: when the confirmation timer of launch r reports success, the handle
\* refers to the process r spawned, the stored stream options are those the
\* process in the handle was started with, and the session created for r
\* names the input file of that process.
C35_SuccessIsOwnProcess ==
    [][\A r \in StartReqs :
          (start[r].pc = "confirm" /\ start'[r].resp = 200)
          => /\ streamingProcess' = r
             /\ currentStreamInfo'.inputFile
                  = proc'[streamingProcess'].inputFile
             /\ currentStreamInfo'.rtmpUrl = proc'[streamingProcess'].rtmpUrl
             /\ sessions'[Len(sessions')].currentVideoId
                  = proc'[streamingProcess'].inputFile]_vars

\* C36: in every state in which no start request and no stop request is in
\* flight, the streaming flag is true exactly when some session has status
\* "streaming".
C36_StatusFieldsAgree ==
    (/\ \A r \in StartReqs : ~StartInFlight(r)
     /\ \A s \in StopReqs : ~StopInFlight(s))
        => (StatusAnswer.isStreaming <=> StatusAnswer.session # 0)

\* C37: for every session id at most one stream_stopped is in the broadcast
\* log.
C37_StoppedOnce == \A x \in StartReqs : StoppedCount(events, x) <= 1

\* C38: every stream_stopped in the broadcast log comes after a
\* stream_started for the same session id.
C38_StoppedAfterStarted ==
    \A m \in 1..Len(events) :
        events[m].type = "stream_stopped"
            => \E k \in 1..(m - 1) :
                   /\ events[k].type = "stream_started"
                   /\ events[k].id = events[m].id

\* C38 witness: a stop that waited for the encoder's exit has been answered
\* and its stream_stopped is in the log.
C38_Witness ==
    \E s \in StopReqs : \E m \in 1..Len(events) :
        /\ stop[s].pc = "done"
        /\ stop[s].resp = 200
        /\ proc[stop[s].session].state = "exited"
        /\ proc[stop[s].session].signals # {}
        /\ events[m].type = "stream_stopped"
        /\ events[m].id = stop[s].session

\* C39: a stop request that finds a session "streaming" whose encoder has
\* exited without having been sent a signal (no start request being in
\* flight) sends no signal, is answered 200,
\* leaves that session "stopped" with its endTime set, broadcasts
\* stream_stopped for it, and leaves no session "streaming".
C39_StopAfterExit ==
    [][\A s \in StopReqs : \A x \in StartReqs :
          (/\ stop[s].pc = "idle" /\ stop'[s].pc # "idle"
           /\ getCurrentSession # 0
           /\ sessions[getCurrentSession].id = x
           /\ proc[x].state = "exited"
           /\ proc[x].signals = {}
           /\ \A r \in StartReqs : ~StartInFlight(r))
          => /\ proc' = proc
             /\ stop'[s].pc = "done"
             /\ stop'[s].resp = 200
             /\ StatusIn(sessions', x) = "stopped"
             /\ EndTimeIn(sessions', x) = "set"
             /\ events' = Append(events, [type |-> "stream_stopped",
                                          id |-> x])
             /\ \A i \in 1..Len(sessions') :
                    sessions'[i].status # "streaming"]_vars

\* The entries of the queue q whose id is in the sequence of ids d.
ListedIn(q, d) == {k \in 1..Len(q) : \E n \in 1..Len(d) : d[n] = q[k].id}

\* C40: after every step, every entry of the ordered queue read names a
\* video of the catalog; a queue_updated broadcast by the step lists only
\* stored entries whose video is in the catalog; the deletion of a video
\* leaves the stored queue as it was and takes exactly that video's entries
\* out of the read; a stored entry disappears only by its removal or a clear.
C40_ReadShowsCatalogVideosOnly ==
    [][/\ \A k \in 1..Len(getQueue(queue', videos')) :
            getQueue(queue', videos')[k].videoId \in videos'
       /\ (/\ Len(events') > Len(events)
           /\ events'[Len(events')].type = "queue_updated")
            => /\ Len(events'[Len(events')].data)
                    = Cardinality(ListedIn(queue', events'[Len(events')].data))
               /\ \A k \in ListedIn(queue', events'[Len(events')].data) :
                      queue'[k].videoId \in videos'
       /\ \A v \in QueueCatalog :
            DeleteVideo(v)
              => /\ queue' = queue
                 /\ getQueue(queue', videos')
                      = SelectSeq(QueueView, LAMBDA e : e.videoId # v)
       /\ \A id \in EntryIds(queue) \ EntryIds(queue') :
            RemoveRoute(id) \/ ClearRoute]_vars

\* C40 witness: a video was deleted, an entry for it is still stored, and a
\* queue_updated broadcast after the deletion does not list that entry.
C40_Witness ==
    \E k \in 1..Len(queue) : \E m, n \in 1..Len(events) :
        /\ queue[k].videoId \in QueueCatalog \ videos
        /\ m < n
        /\ events[m].type = "video_deleted"
        /\ events[n].type = "queue_updated"
        /\ events[n].data # <<>>
        /\ \A j \in 1..Len(events[n].data) :
              events[n].data[j] # queue[k].id

====
